---- MODULE Spec2Model ----
(***************************************************************************)
(* RefManager of react-ref-manager: the registry of refs, the current      *)
(* focus object with its change listeners, and the directional navigation  *)
(* of focusNext.  The caller is sequential: it makes one call of a public   *)
(* method, which runs to completion, holds what the call returned, and     *)
(* resumes before it calls again.  While the result is held, op, args,     *)
(* ret, fired and pre record the call, what it returned, the listener      *)
(* invocations it made and the state it started in.                        *)
(***************************************************************************)
EXTENDS Integers, Sequences, FiniteSets, TLC

\* _refs, _focused, _focusListeners: the fields of the RefManager instance
\* detached: the components whose backing DOM node is not in the document
\* activeElement: document.activeElement
\* scrolledIntoView: the element whose scrollIntoView() was called last
\* op: the call whose result the caller holds, "idle" when it holds none
\* args, ret, fired: the arguments of that call, the value it returned and
\*   the listener invocations it made, in order
\* pre: the instance and the document as they were when that call began
VARIABLES _refs, _focused, _focusListeners, detached, activeElement, scrolledIntoView,
          op, args, ret, fired, pre

vars ==
  <<_refs, _focused, _focusListeners, detached, activeElement, scrolledIntoView,
    op, args, ret, fired, pre>>

(***************************************************************************)
(* Bounds of the model.                                                    *)
(***************************************************************************)
\* longest grid registered item by item in the navigation scenario
MaxLen == 6
\* largest collectionWidth passed to focusNext
MaxWidth == 3
\* longest listener list
MaxListeners == 3

(***************************************************************************)
(* JavaScript values.  Every value is a record: kind is its type, name its *)
(* content (a string's text, a number's decimal form, an object's          *)
(* identity), items the own enumerable properties of an object in          *)
(* Object.keys order.                                                      *)
(***************************************************************************)
Undefined == [kind |-> "undefined", name |-> "", items |-> <<>>]

Null == [kind |-> "null", name |-> "", items |-> <<>>]

Str(s) == [kind |-> "string", name |-> s, items |-> <<>>]

Num(s) == [kind |-> "number", name |-> s, items |-> <<>>]

JsTrue == [kind |-> "boolean", name |-> "true", items |-> <<>>]

JsFalse == [kind |-> "boolean", name |-> "false", items |-> <<>>]

\* a DOM element: it has focus() and scrollIntoView()
Element(n) == [kind |-> "element", name |-> n, items |-> <<>>]

\* a custom component: it is reached through ReactDOM.findDOMNode
Component(n) == [kind |-> "component", name |-> n, items |-> <<>>]

\* the DOM element backing the component n
DOMNode(n) == [kind |-> "node", name |-> n, items |-> <<>>]

EmptyObject == [kind |-> "object", name |-> "", items |-> <<>>]

\* !!val
Truthy(val) ==
  CASE val.kind \in {"undefined", "null"} -> FALSE
    [] val.kind = "string" -> val.name # ""
    [] val.kind = "number" -> val.name # "0"
    [] val.kind = "boolean" -> val.name = "true"
    [] OTHER -> TRUE

Bool(b) == IF b THEN JsTrue ELSE JsFalse

\* typeof val === 'object'
TypeofObject(val) == val.kind \in {"null", "element", "component", "node", "object", "options"}

\* the property key a value turns into when it indexes an object
KeyOf(val) ==
  CASE val.kind \in {"string", "number", "boolean"} -> val.name
    [] val.kind = "undefined" -> "undefined"
    [] val.kind = "null" -> "null"
    [] OTHER -> "[object Object]"

FocusDirection == [LEFT |-> "LEFT", RIGHT |-> "RIGHT", UP |-> "UP", DOWN |-> "DOWN"]

Directions == {FocusDirection.LEFT, FocusDirection.RIGHT, FocusDirection.UP, FocusDirection.DOWN}

(***************************************************************************)
(* Property access on objects.                                             *)
(***************************************************************************)
HasProp(obj, key) == \E i \in 1..Len(obj.items) : obj.items[i].key = key

\* obj[key]: the stored value, undefined for a key the object does not own
Prop(obj, key) ==
  IF HasProp(obj, key)
    THEN obj.items[CHOOSE i \in 1..Len(obj.items) : obj.items[i].key = key].val
    ELSE Undefined

\* canonical array-index keys, which an object enumerates first, ascending
IndexKeys == <<"0", "1", "2", "3">>

IsIndexKey(key) == \E i \in 1..Len(IndexKeys) : IndexKeys[i] = key

IndexValue(key) == CHOOSE i \in 1..Len(IndexKeys) : IndexKeys[i] = key

\* whether an entry with key k enumerates before one with key key
EnumeratesBefore(k, key) ==
  IF IsIndexKey(key)
    THEN IsIndexKey(k) /\ IndexValue(k) < IndexValue(key)
    ELSE TRUE

\* obj[key] = val: an owned key keeps its place, a new index key goes among
\* the index keys in ascending order, any other new key goes last
PutProp(obj, key, val) ==
  LET its == obj.items
      entry == [key |-> key, val |-> val]
  IN  IF HasProp(obj, key)
        THEN [obj EXCEPT !.items =
                [i \in 1..Len(its) |-> IF its[i].key = key THEN entry ELSE its[i]]]
        ELSE LET before == SelectSeq(its, LAMBDA e : EnumeratesBefore(e.key, key))
                 after == SelectSeq(its, LAMBDA e : ~EnumeratesBefore(e.key, key))
             IN  [obj EXCEPT !.items = before \o <<entry>> \o after]

\* Object.keys(obj): the own keys, as strings
ObjectKeys(obj) == [i \in 1..Len(obj.items) |-> Str(obj.items[i].key)]

\* array[i], 0-based: undefined outside the array
At(array, i) == IF 0 <= i /\ i < Len(array) THEN array[i + 1] ELSE Undefined

\* array.indexOf(x), 0-based, -1 when absent
IndexOf(array, x) ==
  IF \E i \in 1..Len(array) : array[i] = x
    THEN (CHOOSE i \in 1..Len(array) : array[i] = x /\ \A j \in 1..(i - 1) : array[j] # x) - 1
    ELSE -1

(***************************************************************************)
(* The RefManager instance as one value, so that a method is an operator   *)
(* from the instance (and its arguments) to an outcome: the instance       *)
(* afterwards, the listener invocations made, and the value returned.      *)
(***************************************************************************)
NotProvided == Str("NOT_PROVIDED")

This ==
  [refs |-> _refs, focused |-> _focused, listeners |-> _focusListeners,
   detached |-> detached, activeElement |-> activeElement,
   scrolledIntoView |-> scrolledIntoView]

\* a FocusObject
FocusObject(ref, DOMRef, id, collectionId, context, applied) ==
  [ref |-> ref, DOMRef |-> DOMRef, id |-> id, collectionId |-> collectionId,
   context |-> context, applied |-> applied]

\* {}: every property reads as undefined
EmptyFocus == FocusObject(Undefined, Undefined, Undefined, Undefined, Undefined, Undefined)

\* ReactDOM.findDOMNode(ref): the element backing a component, null when
\* there is none
findDOMNode(ref) == IF ref.kind = "component" THEN DOMNode(ref.name) ELSE Null

\* DOMRef.parentNode
parentNode(node, det) == IF node.name \in det THEN Null ELSE Element("parent")

\* static focus(ref): the element that took the focus, or null
staticFocus(ref, det) ==
  IF Truthy(ref)
    THEN IF ref.kind \in {"element", "node"}
           THEN ref
           ELSE LET DOMRef == findDOMNode(ref)
                IN  IF Truthy(DOMRef) /\ Truthy(parentNode(DOMRef, det))
                      THEN DOMRef
                      ELSE Null
    ELSE Null

\* the document after static focus(ref) returned DOMRef: the element whose
\* focus() it called is the active element
tookFocus(this, DOMRef) ==
  IF Truthy(DOMRef) THEN [this EXCEPT !.activeElement = DOMRef] ELSE this

\* static refIsFocused(ref): ref && ref === document.activeElement &&
\* !!ref.parentNode, the value of the && chain
refIsFocused(this, ref) ==
  IF ~Truthy(ref)
    THEN ref
    ELSE IF ref # this.activeElement
           THEN JsFalse
           ELSE Bool(Truthy(parentNode(ref, this.detached)))

\* static scrollTo(ref, options): the element scrolled into view, or null
staticScrollTo(ref, options, det) ==
  IF Truthy(ref)
    THEN IF ref.kind \in {"element", "node"}
           THEN ref
           ELSE LET domRef == findDOMNode(ref)
                IN  IF Truthy(domRef) /\ Truthy(parentNode(domRef, det))
                      THEN domRef
                      ELSE Null
    ELSE Null

\* the document after static scrollTo(ref) returned scrolledToRef: the
\* element whose scrollIntoView() it called is the one scrolled into view
scrolledTo(this, scrolledToRef) ==
  IF Truthy(scrolledToRef) THEN [this EXCEPT !.scrolledIntoView = scrolledToRef] ELSE this

\* a ScrollObject
ScrollObject(id, collectionId, ref, DOMRef, applied) ==
  [id |-> id, collectionId |-> collectionId, ref |-> ref, DOMRef |-> DOMRef,
   applied |-> applied]

\* set whose singular form keeps what is already stored under the key
setKeepsFirst(this, collectionId, itemIdOrRef, ref) ==
  IF ref = NotProvided
    THEN IF HasProp(this.refs, KeyOf(collectionId))
           THEN this
           ELSE [this EXCEPT !.refs = PutProp(this.refs, KeyOf(collectionId), itemIdOrRef)]
    ELSE LET collectionRef == Prop(this.refs, KeyOf(collectionId))
             refs1 == IF ~Truthy(collectionRef)
                        THEN PutProp(this.refs, KeyOf(collectionId), EmptyObject)
                        ELSE this.refs
         IN  [this EXCEPT !.refs =
                PutProp(refs1, KeyOf(collectionId),
                        PutProp(Prop(refs1, KeyOf(collectionId)), KeyOf(itemIdOrRef), ref))]

set(this, collectionId, itemIdOrRef, ref) ==
  IF ref = NotProvided
    THEN [this EXCEPT !.refs = PutProp(this.refs, KeyOf(collectionId), itemIdOrRef)]
    ELSE LET collectionRef == Prop(this.refs, KeyOf(collectionId))
             refs1 == IF ~Truthy(collectionRef)
                        THEN PutProp(this.refs, KeyOf(collectionId), EmptyObject)
                        ELSE this.refs
         IN  [this EXCEPT !.refs =
                PutProp(refs1, KeyOf(collectionId),
                        PutProp(Prop(refs1, KeyOf(collectionId)), KeyOf(itemIdOrRef), ref))]

\* get that reads the singular key whatever itemId is
getSingularOnly(this, collectionId, itemId) == Prop(this.refs, KeyOf(collectionId))

get(this, collectionId, itemId) ==
  IF Truthy(this.refs) /\ itemId = NotProvided
    THEN Prop(this.refs, KeyOf(collectionId))
    ELSE IF Truthy(Prop(this.refs, KeyOf(collectionId)))
           THEN Prop(Prop(this.refs, KeyOf(collectionId)), KeyOf(itemId))
           ELSE Prop(this.refs, KeyOf(collectionId))

addFocusChangeListener(this, listener) ==
  [this EXCEPT !.listeners = Append(this.listeners, listener)]

\* array.splice(start, deleteCount): the elements removed, and what is left
\* of the array, which splice changes in place
SpliceRemoved(array, start, deleteCount) ==
  SubSeq(array, start + 1, IF start + deleteCount < Len(array) THEN start + deleteCount ELSE Len(array))

SpliceLeft(array, start, deleteCount) ==
  SubSeq(array, 1, IF start < Len(array) THEN start ELSE Len(array))
    \o SubSeq(array, start + deleteCount + 1, Len(array))

\* removeFocusChangeListener without the test for -1, removing by
\* splice(listenerIndex, 1): index -1 is the last element of the array
removeFocusChangeListenerDropsLast(this, listener) ==
  LET listenerIndex == IndexOf(this.listeners, listener)
  IN  IF listenerIndex # -1
        THEN [this EXCEPT !.listeners = SpliceLeft(this.listeners, listenerIndex, 1)]
        ELSE [this EXCEPT !.listeners = SubSeq(this.listeners, 1, Len(this.listeners) - 1)]

removeFocusChangeListener(this, listener) ==
  LET listenerIndex == IndexOf(this.listeners, listener)
  IN  IF listenerIndex # -1
        THEN LET head == SpliceRemoved(this.listeners, 0, listenerIndex)
                 left == SpliceLeft(this.listeners, 0, listenerIndex)
                 tail == SpliceRemoved(left, listenerIndex + 1, Len(left))
             IN  [this EXCEPT !.listeners = head \o tail]
        ELSE this

\* one listener invocation: listener(previousFocus, focused)
Invocation(listener, previousFocus, focused) ==
  [listener |-> listener, previousFocus |-> previousFocus, focused |-> focused]

\* setCurrentFocus that reads the previous focus after it has stored the new
\* one
setCurrentFocusLatePrevious(this, focused) ==
  LET previousFocus == focused
  IN  [this |-> [this EXCEPT !.focused = focused],
       fired |-> [i \in 1..Len(this.listeners) |->
                    Invocation(this.listeners[i], previousFocus, focused)],
       ret |-> focused]

\* setCurrentFocus that also stores the focused ref in the registry, under
\* the id of the focus object
setCurrentFocusRegisters(this, focused) ==
  LET previousFocus == this.focused
  IN  [this |-> [this EXCEPT !.focused = focused,
                             !.refs = PutProp(this.refs, KeyOf(focused.id), focused.ref)],
       fired |-> [i \in 1..Len(this.listeners) |->
                    Invocation(this.listeners[i], previousFocus, focused)],
       ret |-> focused]

\* a listener that, when it is invoked, calls removeFocusChangeListener of
\* the instance with the listener named target (its own name to remove
\* itself); every other listener is a callback that returns and calls
\* nothing
Unsubscriber(n, target) ==
  [kind |-> "function", name |-> n, items |-> <<[key |-> "removes", val |-> Str(target)]>>]

\* the listener of the list that has the name, undefined when none has
Named(listeners, n) ==
  IF \E i \in 1..Len(listeners) : listeners[i].name = n
    THEN listeners[CHOOSE i \in 1..Len(listeners) :
                     /\ listeners[i].name = n
                     /\ \A j \in 1..(i - 1) : listeners[j].name # n]
    ELSE Undefined

\* a listener that, when it is told of a focus that is not on its element,
\* calls setCurrentFocus of the instance with a focus object of that element
Refocuser(n, element) ==
  [kind |-> "function", name |-> n, items |-> <<[key |-> "refocuses", val |-> element]>>]

\* the focus object a Refocuser passes to setCurrentFocus
RefocusObject(listener) ==
  FocusObject(Prop(listener, "refocuses"), Prop(listener, "refocuses"), Undefined,
              Undefined, Undefined, JsTrue)

\* whether the listener, told of focused, changes the focus again
Refocuses(listener, focused) ==
  /\ HasProp(listener, "refocuses")
  /\ ~("ref" \in DOMAIN focused /\ focused.ref = Prop(listener, "refocuses"))

\* a listener that throws when it is invoked
Thrower(n) ==
  [kind |-> "function", name |-> n, items |-> <<[key |-> "throws", val |-> JsTrue]>>]

\* what a call yields in place of a return value when an error leaves it
Thrown == [kind |-> "throw", name |-> "Error", items |-> <<>>]

\* setCurrentFocus that lets no listener change the focus or end the
\* dispatch: every listener registered is told once of the change, and what
\* a listener does when it is told has no effect
setCurrentFocusGuarded(this, focused) ==
  LET previousFocus == this.focused
  IN  [this |-> [this EXCEPT !.focused = focused],
       fired |-> [i \in 1..Len(this.listeners) |->
                    Invocation(this.listeners[i], previousFocus, focused)],
       ret |-> focused]

\* setCurrentFocus that tells the listeners first and stores the new focus
\* object when all of them have returned
setCurrentFocusStoresLast(this, focused) ==
  LET previousFocus == this.focused
      throwers == {i \in 1..Len(this.listeners) : HasProp(this.listeners[i], "throws")}
      last == IF throwers = {}
                THEN Len(this.listeners)
                ELSE CHOOSE i \in throwers : \A j \in throwers : i <= j
  IN  [this |-> IF throwers = {} THEN [this EXCEPT !.focused = focused] ELSE this,
       fired |-> [i \in 1..last |-> Invocation(this.listeners[i], previousFocus, focused)],
       ret |-> IF throwers = {} THEN focused ELSE Thrown]

\* this._focusListeners.forEach(listener => listener(previousFocus, focused))
\* from index k on.  array is the array forEach was called on and len its
\* length at that time: forEach visits the indexes below len that the array
\* still has when it comes to them.  same tells whether this._focusListeners
\* is still that array: removeFocusChangeListener splices the array that
\* this._focusListeners is at the time, in place, and then makes
\* this._focusListeners a new array.  A listener that calls setCurrentFocus
\* runs that call to its end before it returns to forEach; an error thrown
\* by a listener, or by the call a listener makes, ends forEach (threw), and
\* no later index is visited.
RECURSIVE forEach(_, _, _, _, _, _, _, _)
RECURSIVE setCurrentFocus(_, _)
forEach(array, k, len, same, this, previousFocus, focused, invoked) ==
  IF k >= len
    THEN [this |-> this, fired |-> invoked, array |-> array, same |-> same, threw |-> FALSE]
    ELSE IF k >= Len(array)
           THEN forEach(array, k + 1, len, same, this, previousFocus, focused, invoked)
           ELSE LET listener == array[k + 1]
                    invoked1 == Append(invoked, Invocation(listener, previousFocus, focused))
                IN  IF HasProp(listener, "throws")
                      THEN [this |-> this, fired |-> invoked1, array |-> array,
                            same |-> same, threw |-> TRUE]
                    ELSE IF Refocuses(listener, focused)
                      THEN LET nested == setCurrentFocus(this, RefocusObject(listener))
                               array1 == IF same THEN nested.array ELSE array
                               same1 == same /\ nested.same
                           IN  IF nested.ret = Thrown
                                 THEN [this |-> nested.this,
                                       fired |-> invoked1 \o nested.fired,
                                       array |-> array1, same |-> same1, threw |-> TRUE]
                                 ELSE forEach(array1, k + 1, len, same1, nested.this,
                                              previousFocus, focused,
                                              invoked1 \o nested.fired)
                    ELSE IF HasProp(listener, "removes")
                      THEN LET target == Named(this.listeners, Prop(listener, "removes").name)
                               listenerIndex == IndexOf(this.listeners, target)
                               spliced == SpliceLeft(SpliceLeft(array, 0, listenerIndex),
                                                     listenerIndex + 1, Len(array))
                           IN  forEach(IF same /\ listenerIndex # -1 THEN spliced ELSE array,
                                       k + 1, len, same /\ listenerIndex = -1,
                                       removeFocusChangeListener(this, target),
                                       previousFocus, focused, invoked1)
                      ELSE forEach(array, k + 1, len, same, this, previousFocus, focused,
                                   invoked1)

\* array and same are what the dispatch left of the array it went through,
\* for the forEach of an outer call that a listener made this call from
setCurrentFocus(this, focused) ==
  LET previousFocus == this.focused
      this1 == [this EXCEPT !.focused = focused]
      done == forEach(this1.listeners, 0, Len(this1.listeners), TRUE, this1, previousFocus,
                      focused, <<>>)
  IN  [this |-> done.this, fired |-> done.fired,
       ret |-> IF done.threw THEN Thrown ELSE done.this.focused,
       array |-> done.array, same |-> done.same]

\* getCurrentFocus that always answers with the empty focus object
getCurrentFocusCleared(this) == EmptyFocus

\* this._focused || {}
getCurrentFocus(this) ==
  IF "kind" \in DOMAIN this.focused /\ ~Truthy(this.focused)
    THEN EmptyFocus
    ELSE this.focused

\* focus that records the attempt only when the adapter resolved an element
focusOnlyWhenApplied(this, ref, options) ==
  LET id == Prop(options, "id")
      collectionId == Prop(options, "collectionId")
      context == Prop(options, "context")
  IN  IF Truthy(ref)
        THEN LET DOMRef == staticFocus(ref, this.detached)
                 record == FocusObject(ref, DOMRef, id, collectionId, context,
                                       Bool(Truthy(DOMRef)))
             IN  IF Truthy(DOMRef)
                   THEN setCurrentFocus(tookFocus(this, DOMRef), record)
                   ELSE [this |-> this, fired |-> <<>>, ret |-> record]
        ELSE [this |-> this,
              fired |-> <<>>,
              ret |-> FocusObject(Null, Null, id, collectionId, context, JsFalse)]

\* focus that records a miss as it records an attempt: the record of the
\* absent ref goes through setCurrentFocus
focusRecordsMisses(this, ref, options) ==
  LET id == Prop(options, "id")
      collectionId == Prop(options, "collectionId")
      context == Prop(options, "context")
  IN  IF Truthy(ref)
        THEN LET DOMRef == staticFocus(ref, this.detached)
             IN  setCurrentFocus(tookFocus(this, DOMRef),
                   FocusObject(ref, DOMRef, id, collectionId, context, Bool(Truthy(DOMRef))))
        ELSE setCurrentFocus(this, FocusObject(Null, Null, id, collectionId, context, JsFalse))

focus(this, ref, options) ==
  LET id == Prop(options, "id")
      collectionId == Prop(options, "collectionId")
      context == Prop(options, "context")
  IN  IF Truthy(ref)
        THEN LET DOMRef == staticFocus(ref, this.detached)
             IN  setCurrentFocus(tookFocus(this, DOMRef),
                   FocusObject(ref, DOMRef, id, collectionId, context, Bool(Truthy(DOMRef))))
        ELSE [this |-> this,
              fired |-> <<>>,
              ret |-> FocusObject(Null, Null, id, collectionId, context, JsFalse)]

\* Object.assign(target, source): the properties of source, in its order
RECURSIVE Assign(_, _, _)
Assign(target, source, i) ==
  IF i > Len(source.items)
    THEN target
    ELSE Assign(PutProp(target, source.items[i].key, source.items[i].val), source, i + 1)

focusById(this, collectionId, itemIdOrOptions, options) ==
  IF options = NotProvided
    THEN LET _itemId == IF itemIdOrOptions = NotProvided
                          THEN Undefined
                          ELSE IF TypeofObject(itemIdOrOptions)
                                 THEN Undefined
                                 ELSE itemIdOrOptions
             _options == IF itemIdOrOptions = NotProvided
                           THEN EmptyObject
                           ELSE IF TypeofObject(itemIdOrOptions)
                                  THEN IF Truthy(itemIdOrOptions)
                                         THEN itemIdOrOptions
                                         ELSE EmptyObject
                                  ELSE EmptyObject
         IN  IF Truthy(_itemId)
               THEN focus(this, get(this, collectionId, _itemId),
                          Assign(PutProp(PutProp(EmptyObject, "id", _itemId),
                                         "collectionId", collectionId),
                                 _options, 1))
               ELSE focus(this, get(this, collectionId, NotProvided),
                          Assign(PutProp(EmptyObject, "collectionId", collectionId),
                                 _options, 1))
    ELSE focus(this, get(this, collectionId, itemIdOrOptions),
               PutProp(PutProp(Assign(EmptyObject, options, 1), "id", itemIdOrOptions),
                       "collectionId", collectionId))

(***************************************************************************)
(* focusNext: the identifier to move to, for each direction.  indexesToUse *)
(* is the candidate sequence, refIdsIndex the 0-based position of the      *)
(* current focus in it.                                                    *)
(***************************************************************************)
\* nextRefIdLeft with the wrapped move one past the end of the sequence
nextRefIdLeftPastEnd(indexesToUse, refIdsIndex, xWrap) ==
  LET nextRefIndex == refIdsIndex - 1
  IN  IF nextRefIndex >= 0
        THEN At(indexesToUse, refIdsIndex - 1)
        ELSE IF xWrap
               THEN At(indexesToUse, Len(indexesToUse))
               ELSE At(indexesToUse, 0)

nextRefIdLeft(indexesToUse, refIdsIndex, xWrap) ==
  LET nextRefIndex == refIdsIndex - 1
  IN  IF nextRefIndex >= 0
        THEN At(indexesToUse, refIdsIndex - 1)
        ELSE IF xWrap
               THEN At(indexesToUse, Len(indexesToUse) - 1)
               ELSE At(indexesToUse, 0)

\* nextRefIdRight without the clamp: past the end it reads the sequence
\* where there is nothing
nextRefIdRightUnclamped(indexesToUse, refIdsIndex, xWrap) ==
  LET nextRefIndex == refIdsIndex + 1
  IN  IF nextRefIndex < Len(indexesToUse)
        THEN At(indexesToUse, refIdsIndex + 1)
        ELSE IF xWrap
               THEN At(indexesToUse, 0)
               ELSE At(indexesToUse, refIdsIndex + 1)

\* nextRefIdRight that stops at the last identifier whatever xWrap says
nextRefIdRightNeverWraps(indexesToUse, refIdsIndex, xWrap) ==
  LET nextRefIndex == refIdsIndex + 1
  IN  IF nextRefIndex < Len(indexesToUse)
        THEN At(indexesToUse, refIdsIndex + 1)
        ELSE At(indexesToUse, Len(indexesToUse) - 1)

nextRefIdRight(indexesToUse, refIdsIndex, xWrap) ==
  LET nextRefIndex == refIdsIndex + 1
  IN  IF nextRefIndex < Len(indexesToUse)
        THEN At(indexesToUse, refIdsIndex + 1)
        ELSE IF xWrap
               THEN At(indexesToUse, 0)
               ELSE At(indexesToUse, Len(indexesToUse) - 1)

\* nextRefIdUp that, stopped at the top, selects the identifier one row
\* below the first
nextRefIdUpBounces(indexesToUse, refIdsIndex, collectionWidth, yWrap) ==
  LET nextRefIndex == refIdsIndex - collectionWidth
  IN  IF nextRefIndex >= 0
        THEN At(indexesToUse, refIdsIndex - collectionWidth)
        ELSE IF yWrap
               THEN At(indexesToUse, Len(indexesToUse) - 1)
               ELSE At(indexesToUse, collectionWidth)

nextRefIdUp(indexesToUse, refIdsIndex, collectionWidth, yWrap) ==
  LET nextRefIndex == refIdsIndex - collectionWidth
  IN  IF nextRefIndex >= 0
        THEN At(indexesToUse, refIdsIndex - collectionWidth)
        ELSE IF yWrap
               THEN At(indexesToUse, Len(indexesToUse) - 1)
               ELSE At(indexesToUse, 0)

\* nextRefIdDown that forgets the row width and moves by one
nextRefIdDownByOne(indexesToUse, refIdsIndex, collectionWidth, yWrap) ==
  LET nextRefIndex == refIdsIndex + collectionWidth
  IN  IF nextRefIndex < Len(indexesToUse)
        THEN At(indexesToUse, refIdsIndex + 1)
        ELSE IF yWrap
               THEN At(indexesToUse, 0)
               ELSE At(indexesToUse, Len(indexesToUse) - collectionWidth)

nextRefIdDown(indexesToUse, refIdsIndex, collectionWidth, yWrap) ==
  LET nextRefIndex == refIdsIndex + collectionWidth
  IN  IF nextRefIndex < Len(indexesToUse)
        THEN At(indexesToUse, refIdsIndex + collectionWidth)
        ELSE IF yWrap
               THEN At(indexesToUse, 0)
               ELSE At(indexesToUse, Len(indexesToUse) - collectionWidth)

nextRefId(indexesToUse, refIdsIndex, direction, collectionWidth, xWrap, yWrap) ==
  CASE direction = FocusDirection.LEFT -> nextRefIdLeft(indexesToUse, refIdsIndex, xWrap)
    [] direction = FocusDirection.RIGHT -> nextRefIdRight(indexesToUse, refIdsIndex, xWrap)
    [] direction = FocusDirection.UP ->
         nextRefIdUp(indexesToUse, refIdsIndex, collectionWidth, yWrap)
    [] direction = FocusDirection.DOWN ->
         nextRefIdDown(indexesToUse, refIdsIndex, collectionWidth, yWrap)
    [] OTHER -> Undefined

\* the options object { id, collectionId, context } handed to focus
IdOptions(id, collectionId, context) ==
  PutProp(PutProp(PutProp(EmptyObject, "id", id), "collectionId", collectionId),
          "context", context)

\* the candidate sequence: options.indexes, else the keys of the collection
candidates(refCollection, options) ==
  IF options.indexes.given THEN options.indexes.ids ELSE ObjectKeys(refCollection)

\* focusNext as it was before the focus object carried a collectionId: only
\* the id decides whether navigation starts over
focusNextByIdOnly(this, refCollection, options) ==
  IF ~Truthy(refCollection)
    THEN [this |-> this,
          fired |-> <<>>,
          ret |-> FocusObject(Null, Null, Undefined, options.collectionId,
                              options.context, JsFalse)]
    ELSE LET currentFocus == getCurrentFocus(this)
             indexesToUse == candidates(refCollection, options)
             refIdsIndex == IndexOf(indexesToUse, currentFocus.id)
         IN  IF refIdsIndex = -1
               THEN LET firstRefId == At(indexesToUse, 0)
                    IN  focus(this, Prop(refCollection, KeyOf(firstRefId)),
                              IdOptions(firstRefId, options.collectionId, options.context))
               ELSE LET nextId == nextRefId(indexesToUse, refIdsIndex, options.direction,
                                            options.collectionWidth, options.xWrap,
                                            options.yWrap)
                        nextRef == Prop(refCollection, KeyOf(nextId))
                    IN  focus(this, nextRef,
                              IdOptions(nextId, options.collectionId, options.context))

\* focusNext as the earlier revision ended: it focuses the selected ref only
\* when there is one, and returns nothing otherwise
focusNextSilentOnMiss(this, refCollection, options) ==
  IF ~Truthy(refCollection)
    THEN [this |-> this,
          fired |-> <<>>,
          ret |-> FocusObject(Null, Null, Undefined, options.collectionId,
                              options.context, JsFalse)]
    ELSE LET currentFocus == getCurrentFocus(this)
             indexesToUse == candidates(refCollection, options)
             refIdsIndex == IndexOf(indexesToUse, currentFocus.id)
         IN  IF currentFocus.collectionId # options.collectionId \/ refIdsIndex = -1
               THEN LET firstRefId == At(indexesToUse, 0)
                    IN  focus(this, Prop(refCollection, KeyOf(firstRefId)),
                              IdOptions(firstRefId, options.collectionId, options.context))
               ELSE LET nextId == nextRefId(indexesToUse, refIdsIndex, options.direction,
                                            options.collectionWidth, options.xWrap,
                                            options.yWrap)
                        nextRef == Prop(refCollection, KeyOf(nextId))
                    IN  IF Truthy(nextRef)
                          THEN focus(this, nextRef,
                                     IdOptions(nextId, options.collectionId, options.context))
                          ELSE [this |-> this, fired |-> <<>>, ret |-> Undefined]

\* options: direction, indexes, collectionId, context, collectionWidth, yWrap
\* and xWrap as destructured, the defaults applied
focusNext(this, refCollection, options) ==
  IF ~Truthy(refCollection)
    THEN [this |-> this,
          fired |-> <<>>,
          ret |-> FocusObject(Null, Null, Undefined, options.collectionId,
                              options.context, JsFalse)]
    ELSE LET currentFocus == getCurrentFocus(this)
             indexesToUse == candidates(refCollection, options)
             refIdsIndex == IndexOf(indexesToUse, currentFocus.id)
         IN  IF currentFocus.collectionId # options.collectionId \/ refIdsIndex = -1
               THEN LET firstRefId == At(indexesToUse, 0)
                    IN  focus(this, Prop(refCollection, KeyOf(firstRefId)),
                              IdOptions(firstRefId, options.collectionId, options.context))
               ELSE LET nextId == nextRefId(indexesToUse, refIdsIndex, options.direction,
                                            options.collectionWidth, options.xWrap,
                                            options.yWrap)
                        nextRef == Prop(refCollection, KeyOf(nextId))
                    IN  focus(this, nextRef,
                              IdOptions(nextId, options.collectionId, options.context))

focusNextById(this, collectionId, options) ==
  LET refCollection == get(this, collectionId, NotProvided)
  IN  focusNext(this, refCollection, [options EXCEPT !.collectionId = collectionId])

isFocusedRefInDOM(this) == refIsFocused(this, getCurrentFocus(this).DOMRef)

\* scrollToById that tells the listeners of a miss
scrollToByIdNotifying(this, collectionId, itemIdOrOptions, options) ==
  LET ref == get(this, collectionId, itemIdOrOptions)
      miss == ScrollObject(itemIdOrOptions, collectionId, Null, Null, JsFalse)
  IN  IF Truthy(ref)
        THEN LET scrolledToRef == staticScrollTo(Prop(ref, "DOMRef"), options, this.detached)
             IN  [this |-> scrolledTo(this, scrolledToRef),
                  fired |-> <<>>,
                  ret |-> ScrollObject(itemIdOrOptions, collectionId, ref, scrolledToRef,
                                       Bool(Truthy(scrolledToRef)))]
        ELSE [this |-> this,
              fired |-> [i \in 1..Len(this.listeners) |->
                           Invocation(this.listeners[i], this.focused, miss)],
              ret |-> miss]

\* scrollToById without the test of the ref: reading DOMRef of undefined
\* throws a TypeError
scrollToByIdUnguarded(this, collectionId, itemIdOrOptions, options) ==
  LET ref == get(this, collectionId, itemIdOrOptions)
  IN  IF Truthy(ref)
        THEN LET scrolledToRef == staticScrollTo(Prop(ref, "DOMRef"), options, this.detached)
             IN  [this |-> scrolledTo(this, scrolledToRef),
                  fired |-> <<>>,
                  ret |-> ScrollObject(itemIdOrOptions, collectionId, ref, scrolledToRef,
                                       Bool(Truthy(scrolledToRef)))]
        ELSE [this |-> this, fired |-> <<>>, ret |-> Str("TypeError")]

scrollToById(this, collectionId, itemIdOrOptions, options) ==
  LET _itemId == IF options = NotProvided
                   THEN IF itemIdOrOptions = NotProvided
                          THEN NotProvided
                          ELSE IF itemIdOrOptions.kind = "string"
                                 THEN itemIdOrOptions
                                 ELSE NotProvided
                   ELSE itemIdOrOptions
      _options == IF options = NotProvided
                    THEN IF itemIdOrOptions = NotProvided
                           THEN NotProvided
                           ELSE IF itemIdOrOptions.kind = "string"
                                  THEN NotProvided
                                  ELSE itemIdOrOptions
                    ELSE options
      ref == get(this, collectionId, _itemId)
  IN  IF Truthy(ref)
        THEN LET scrolledToRef == staticScrollTo(Prop(ref, "DOMRef"), _options, this.detached)
             IN  [this |-> scrolledTo(this, scrolledToRef),
                  fired |-> <<>>,
                  ret |-> ScrollObject(_itemId, collectionId, ref, scrolledToRef,
                                       Bool(Truthy(scrolledToRef)))]
        ELSE [this |-> this,
              fired |-> <<>>,
              ret |-> ScrollObject(_itemId, collectionId, Null, Null, JsFalse)]

\* scrollToFocused that writes the element it scrolled to into the current
\* focus object
scrollToFocusedStoring(this, options) ==
  LET currentFocusRef == getCurrentFocus(this)
      scrolledToRef == staticScrollTo(currentFocusRef.DOMRef, options, this.detached)
  IN  [this |-> [scrolledTo(this, scrolledToRef) EXCEPT !.focused.DOMRef = scrolledToRef],
       fired |-> <<>>,
       ret |-> ScrollObject(currentFocusRef.id, currentFocusRef.collectionId,
                            currentFocusRef.ref, scrolledToRef,
                            Bool(Truthy(scrolledToRef)))]

\* scrollToFocused that scrolls to the ref of the current focus object, not
\* to the element that was focused
scrollToFocusedByRef(this, options) ==
  LET currentFocusRef == getCurrentFocus(this)
      scrolledToRef == staticScrollTo(currentFocusRef.ref, options, this.detached)
  IN  [this |-> scrolledTo(this, scrolledToRef),
       fired |-> <<>>,
       ret |-> ScrollObject(currentFocusRef.id, currentFocusRef.collectionId,
                            currentFocusRef.ref, scrolledToRef,
                            Bool(Truthy(scrolledToRef)))]

\* scrollToFocused that reports the applied of the current focus object, not
\* whether the scroll found an element
scrollToFocusedKeepsApplied(this, options) ==
  LET currentFocusRef == getCurrentFocus(this)
      scrolledToRef == staticScrollTo(currentFocusRef.DOMRef, options, this.detached)
  IN  [this |-> scrolledTo(this, scrolledToRef),
       fired |-> <<>>,
       ret |-> ScrollObject(currentFocusRef.id, currentFocusRef.collectionId,
                            currentFocusRef.ref, scrolledToRef, currentFocusRef.applied)]

\* currentFocusRef is getCurrentFocus(), an object, which is never falsy:
\* the else branch of the source is not reachable
scrollToFocused(this, options) ==
  LET currentFocusRef == getCurrentFocus(this)
      scrolledToRef == staticScrollTo(currentFocusRef.DOMRef, options, this.detached)
  IN  [this |-> scrolledTo(this, scrolledToRef),
       fired |-> <<>>,
       ret |-> ScrollObject(currentFocusRef.id, currentFocusRef.collectionId,
                            currentFocusRef.ref, scrolledToRef,
                            Bool(Truthy(scrolledToRef)))]

(***************************************************************************)
(* The calls.  Each action is one call of a public method, from the state  *)
(* of the instance to the state the method leaves.                         *)
(***************************************************************************)
NoArgs ==
  [collectionId |-> Undefined, itemIdOrRef |-> Undefined, ref |-> Undefined,
   options |-> Undefined, listener |-> Undefined, focused |-> EmptyFocus]

Fresh ==
  [refs |-> EmptyObject, focused |-> EmptyFocus, listeners |-> <<>>,
   detached |-> {}, activeElement |-> Null, scrolledIntoView |-> Null]

\* a call made by the idle caller runs to completion and returns
Return(name, a, out) ==
  /\ op = "idle"
  /\ \E o \in {out} :
       /\ _refs' = o.this.refs
       /\ _focused' = o.this.focused
       /\ _focusListeners' = o.this.listeners
       /\ detached' = o.this.detached
       /\ activeElement' = o.this.activeElement
       /\ scrolledIntoView' = o.this.scrolledIntoView
       /\ op' = name
       /\ args' = a
       /\ ret' = o.ret
       /\ fired' = o.fired
       /\ pre' = This

\* the caller lets go of the result and is ready for its next call
Resume ==
  /\ op # "idle"
  /\ op' = "idle"
  /\ args' = NoArgs
  /\ ret' = Undefined
  /\ fired' = <<>>
  /\ pre' = Fresh
  /\ UNCHANGED <<_refs, _focused, _focusListeners, detached, activeElement, scrolledIntoView>>

\* the state after new RefManager()
Init ==
  /\ _refs = EmptyObject
  /\ _focused = EmptyFocus
  /\ _focusListeners = <<>>
  /\ detached = {}
  /\ activeElement = Null
  /\ scrolledIntoView = Null
  /\ op = "idle"
  /\ args = NoArgs
  /\ ret = Undefined
  /\ fired = <<>>
  /\ pre = Fresh

Set(collectionId, itemIdOrRef, ref) ==
  Return("set",
         [NoArgs EXCEPT !.collectionId = collectionId, !.itemIdOrRef = itemIdOrRef, !.ref = ref],
         [this |-> set(This, collectionId, itemIdOrRef, ref), fired |-> <<>>, ret |-> Undefined])

Get(collectionId, itemId) ==
  Return("get", [NoArgs EXCEPT !.collectionId = collectionId, !.itemIdOrRef = itemId],
         [this |-> This, fired |-> <<>>, ret |-> get(This, collectionId, itemId)])

GetCurrentFocus ==
  Return("getCurrentFocus", NoArgs, [this |-> This, fired |-> <<>>, ret |-> getCurrentFocus(This)])

IsFocusedRefInDOM ==
  Return("isFocusedRefInDOM", NoArgs,
         [this |-> This, fired |-> <<>>, ret |-> isFocusedRefInDOM(This)])

ScrollToById(collectionId, itemIdOrOptions, options) ==
  Return("scrollToById",
         [NoArgs EXCEPT !.collectionId = collectionId, !.itemIdOrRef = itemIdOrOptions,
                        !.options = options],
         scrollToById(This, collectionId, itemIdOrOptions, options))

ScrollToFocused(options) ==
  Return("scrollToFocused", [NoArgs EXCEPT !.options = options], scrollToFocused(This, options))

SetCurrentFocus(focused) ==
  Return("setCurrentFocus", [NoArgs EXCEPT !.focused = focused], setCurrentFocus(This, focused))

Focus(ref, options) ==
  Return("focus", [NoArgs EXCEPT !.ref = ref, !.options = options], focus(This, ref, options))

FocusById(collectionId, itemIdOrOptions, options) ==
  Return("focusById",
         [NoArgs EXCEPT !.collectionId = collectionId, !.itemIdOrRef = itemIdOrOptions,
                        !.options = options],
         focusById(This, collectionId, itemIdOrOptions, options))

FocusNextById(collectionId, options) ==
  Return("focusNextById",
         [NoArgs EXCEPT !.collectionId = collectionId,
                        !.ref = get(This, collectionId, NotProvided),
                        !.options = [options EXCEPT !.collectionId = collectionId]],
         focusNextById(This, collectionId, options))

FocusNext(refCollection, options) ==
  Return("focusNext", [NoArgs EXCEPT !.ref = refCollection, !.options = options],
         focusNext(This, refCollection, options))

AddFocusChangeListener(listener) ==
  Return("addFocusChangeListener", [NoArgs EXCEPT !.listener = listener],
         [this |-> addFocusChangeListener(This, listener), fired |-> <<>>, ret |-> listener])

RemoveFocusChangeListener(listener) ==
  Return("removeFocusChangeListener", [NoArgs EXCEPT !.listener = listener],
         [this |-> removeFocusChangeListener(This, listener), fired |-> <<>>, ret |-> Undefined])

\* the rendering layer takes the DOM node of component n out of the document
Detach(n) ==
  /\ op = "idle"
  /\ n \notin detached
  /\ detached' = detached \cup {n}
  /\ activeElement' = IF activeElement = DOMNode(n) THEN Null ELSE activeElement
  /\ UNCHANGED <<_refs, _focused, _focusListeners, scrolledIntoView, op, args, ret, fired, pre>>

(***************************************************************************)
(* The navigation scenario: a collection "grid" registered item by item,   *)
(* focus moved in it by id, from outside and by focusNext.                 *)
(***************************************************************************)
Letters == <<"a", "b", "c", "d", "e", "f", "g", "h">>

GridId == Str("grid")

Item(k) == Str(Letters[k])

\* the second item is a custom component, the others are DOM elements
GridTarget(k) == IF k = 2 THEN Component(Letters[k]) ELSE Element(Letters[k])

NextOptions(direction, indexes, collectionId, context, collectionWidth, yWrap, xWrap) ==
  [direction |-> direction, indexes |-> indexes, collectionId |-> collectionId,
   context |-> context, collectionWidth |-> collectionWidth, yWrap |-> yWrap, xWrap |-> xWrap]

NoIndexes == [given |-> FALSE, ids |-> <<>>]

Indexes(ids) == [given |-> TRUE, ids |-> ids]

NavIndexes == {NoIndexes, Indexes(<<>>), Indexes(<<Item(3), Item(1), Item(2)>>)}

\* a focus recorded from outside: in another collection, on an id the grid
\* uses too
ElsewhereFocus ==
  FocusObject(Element("x"), Element("x"), Item(1), Str("other"), Undefined, JsTrue)

NavRegister ==
  \E k \in 1..MaxLen :
    /\ k = Len(Prop(_refs, KeyOf(GridId)).items) + 1
    /\ Set(GridId, Item(k), GridTarget(k))

NavDetach == Detach(Letters[2])

NavFocusById == \E k \in 1..MaxLen : FocusById(GridId, Item(k), NotProvided)

NavSetCurrentFocus == \E focused \in {EmptyFocus, ElsewhereFocus} : SetCurrentFocus(focused)

NavFocusNextById ==
  \E direction \in Directions, indexes \in NavIndexes, collectionWidth \in 1..MaxWidth,
     yWrap \in BOOLEAN, xWrap \in BOOLEAN :
    FocusNextById(GridId, NextOptions(direction, indexes, Undefined, Undefined,
                                      collectionWidth, yWrap, xWrap))

NavFocusNext ==
  \E direction \in Directions :
    FocusNext(get(This, GridId, NotProvided),
              NextOptions(direction, NoIndexes, Undefined, Str("ctx"), 1, FALSE, FALSE))

NextNav ==
  \/ NavRegister
  \/ NavDetach
  \/ NavFocusById
  \/ NavSetCurrentFocus
  \/ NavFocusNextById
  \/ NavFocusNext
  \/ Resume

SpecNav == Init /\ [][NextNav]_vars

(***************************************************************************)
(* What a held focusNext / focusNextById result is about: the candidate    *)
(* sequence, its length n, the row width w, and the 0-based position p of  *)
(* the focus that was current when the call began.                         *)
(***************************************************************************)
NavCalled == op \in {"focusNext", "focusNextById"} /\ Truthy(args.ref)

NavSeq == candidates(args.ref, args.options)

NavLen == Len(NavSeq)

NavWidth == args.options.collectionWidth

NavDirection == args.options.direction

NavBefore == getCurrentFocus(pre)

NavPos == IndexOf(NavSeq, NavBefore.id)

\* the call began with the focus in the collection, on a candidate
NavInCollection ==
  /\ NavCalled
  /\ NavBefore.collectionId = args.options.collectionId
  /\ NavPos # -1

\* the identifier the call selected is the one at 0-based position i
NavSelected(i) == i \in 0..(NavLen - 1) /\ ret.id = NavSeq[i + 1]

\* the 0-based row of position i
NavRow(i) == i \div NavWidth

\* the target the adapter can bring into focus
Resolves(ref, det) ==
  \/ ref.kind = "element"
  \/ ref.kind = "component" /\ ref.name \notin det

C4_ColdStart ==
  (/\ NavCalled
   /\ \/ NavBefore = EmptyFocus
      \/ NavBefore.collectionId # args.options.collectionId
      \/ NavPos = -1)
    => /\ IF NavLen >= 1 THEN NavSelected(0) ELSE ret.id = Undefined
       /\ Resolves(Prop(args.ref, KeyOf(ret.id)), pre.detached)
            => /\ ret.applied = JsTrue
               /\ ret.ref = Prop(args.ref, KeyOf(ret.id))
               /\ _focused = ret

\* a switch of collection: the focus was on "a" of another collection, "a" is
\* the second candidate, and RIGHT lands on the first candidate, not the third
C4_Witness ==
  /\ NavCalled
  /\ NavBefore = ElsewhereFocus
  /\ NavSeq = <<Item(3), Item(1), Item(2)>>
  /\ NavPos = 1
  /\ NavDirection = "RIGHT"
  /\ args.options.xWrap
  /\ ret.id = Item(3)
  /\ ret.applied = JsTrue
  /\ _focused = ret

\* the focus was in the bottom row of the grid when the call began
NavInBottomRow == NavInCollection /\ NavRow(NavPos) = NavRow(NavLen - 1)

\* C5: with yWrap = true, DOWN from the bottom row of the grid focuses the
\* item of the top row in the same column.
C5_DownWrapKeepsColumn ==
  (NavInBottomRow /\ NavDirection = "DOWN" /\ args.options.yWrap)
    => NavSelected(NavPos % NavWidth)

\* C6: with yWrap = false, a DOWN move that overflows lands on an index in
\* the last row of the grid, for every length n >= 1 and width w >= 1.
C6_DownClampInLastRow ==
  (/\ NavInCollection
   /\ NavDirection = "DOWN"
   /\ ~args.options.yWrap
   /\ NavPos + NavWidth > NavLen - 1)
    => \E i \in 0..(NavLen - 1) : NavSelected(i) /\ NavRow(i) = NavRow(NavLen - 1)

\* C7: with yWrap = false, DOWN from the bottom row of the grid does not move
\* the focus: the focused identifier is the same after the call as before.
C7_DownClampStays ==
  (NavInBottomRow /\ NavDirection = "DOWN" /\ ~args.options.yWrap)
    => getCurrentFocus(This).id = NavBefore.id

\* the focus was on the last item of a row when the call began
NavAtRowEnd ==
  /\ NavInCollection
  /\ NavWidth > 1
  /\ \/ NavPos % NavWidth = NavWidth - 1
     \/ NavPos = NavLen - 1

\* C8: RIGHT from the last item of a row (collectionWidth > 1) does not move
\* the focus when xWrap = false, and focuses the first item of the same row
\* when xWrap = true.
C8_RightIsRowAware ==
  (NavAtRowEnd /\ NavDirection = "RIGHT")
    => IF args.options.xWrap
         THEN NavSelected(NavRow(NavPos) * NavWidth)
         ELSE getCurrentFocus(This).id = NavBefore.id

\* the value is a focus object: it has the six properties of one
IsFocusObject(val) ==
  DOMAIN val = {"ref", "DOMRef", "id", "collectionId", "context", "applied"}

\* the held focusNext / focusNextById call found no ref to focus: it had no
\* ref collection, or no candidate, or the ref collection has no ref under
\* the identifier selected
NavMissed ==
  /\ op \in {"focusNext", "focusNextById"}
  /\ \/ ~Truthy(args.ref)
     \/ NavLen = 0
     \/ ~Truthy(Prop(args.ref, KeyOf(ret.id)))

\* C15: focusNext and focusNextById always return a focus object; when the
\* collection is not registered, or there is no candidate, or the selected
\* identifier has no ref in the ref collection, the object has applied =
\* false and ref = null.
C15_NavigationReportsMisses ==
  op \in {"focusNext", "focusNextById"} =>
    /\ IsFocusObject(ret)
    /\ NavMissed => (ret.applied = JsFalse /\ ret.ref = Null)

\* the focus is on "a", the second of the candidates c, a, b, and LEFT
\* selects "c", which is not registered: the record says so
C15_Witness ==
  /\ NavInCollection
  /\ NavSeq = <<Item(3), Item(1), Item(2)>>
  /\ NavPos = 1
  /\ NavDirection = "LEFT"
  /\ ~HasProp(args.ref, KeyOf(Item(3)))
  /\ NavMissed
  /\ ret.id = Item(3)
  /\ ret.applied = JsFalse
  /\ ret.ref = Null

(***************************************************************************)
(* The focus scenario: listeners come and go, a toolbar ref is registered, *)
(* and the focus is moved by focus, focusById and setCurrentFocus.         *)
(***************************************************************************)
Fn(n) == [kind |-> "function", name |-> n, items |-> <<>>]

Listeners == {Fn("L1"), Fn("L2")}

ToolbarId == Str("toolbar")

\* a DOM element and a custom component
Refs == {Element("e"), Component("k")}

FocusOptions == {EmptyObject, IdOptions(Str("a"), Str("items"), Str("ctx"))}

AddListener ==
  \E listener \in Listeners :
    /\ Len(_focusListeners) < MaxListeners
    /\ AddFocusChangeListener(listener)

RemoveListener == \E listener \in Listeners : RemoveFocusChangeListener(listener)

Register == \E ref \in Refs : Set(ToolbarId, ref, NotProvided)

Unmount == \E ref \in Refs : ref.kind = "component" /\ Detach(ref.name)

ReplaceFocus == \E focused \in {EmptyFocus, ElsewhereFocus} : SetCurrentFocus(focused)

FocusRef == \E ref \in Refs \cup {Undefined, Null}, options \in FocusOptions : Focus(ref, options)

FocusToolbar ==
  \E collectionId \in {ToolbarId, Str("missing")} :
    FocusById(collectionId, NotProvided, NotProvided)

Next ==
  \/ AddListener
  \/ RemoveListener
  \/ Register
  \/ Unmount
  \/ ReplaceFocus
  \/ FocusRef
  \/ FocusToolbar
  \/ Resume

Spec == Init /\ [][Next]_vars

\* the invocations a change from previousFocus to focused makes of the
\* listeners registered in the list, one for each, in registration order
Dispatch(listeners, previousFocus, focused) ==
  /\ Len(fired) = Len(listeners)
  /\ \A i \in 1..Len(listeners) :
       /\ fired[i].listener = listeners[i]
       /\ fired[i].previousFocus = previousFocus
       /\ fired[i].focused = focused

\* the number of invocations of the listener l in the held call
Invocations(l) == Cardinality({i \in 1..Len(fired) : fired[i].listener = l})

\* no listener is registered twice in the list
Distinct(listeners) ==
  \A i, j \in 1..Len(listeners) : listeners[i] = listeners[j] => i = j

C10_FocusRecordsTheAttempt ==
  (op = "focus" /\ Truthy(args.ref)) =>
    LET DOMRef == IF Resolves(args.ref, pre.detached)
                    THEN IF args.ref.kind = "component"
                           THEN DOMNode(args.ref.name)
                           ELSE args.ref
                    ELSE Null
        record == FocusObject(args.ref, DOMRef, Prop(args.options, "id"),
                              Prop(args.options, "collectionId"),
                              Prop(args.options, "context"),
                              IF DOMRef = Null THEN JsFalse ELSE JsTrue)
    IN  /\ ret = record
        /\ _focused = record
        /\ Dispatch(pre.listeners, pre.focused, record)
        /\ activeElement = IF DOMRef = Null THEN pre.activeElement ELSE DOMRef

\* a component whose DOM node is gone: the failed attempt is recorded and
\* the listener is told
C10_Witness ==
  /\ op = "focus"
  /\ args.ref = Component("k")
  /\ "k" \in pre.detached
  /\ Prop(args.options, "id") = Str("a")
  /\ ret.applied = JsFalse
  /\ ret.DOMRef = Null
  /\ ret.ref = Component("k")
  /\ _focused = ret
  /\ pre.focused # ret
  /\ Len(fired) >= 1

C12_MissPropagation ==
  (op = "focusById" /\ ~HasProp(pre.refs, KeyOf(args.collectionId))) =>
    /\ ret.ref = Null
    /\ ret.applied = JsFalse
    /\ Dispatch(pre.listeners, pre.focused, ret)

(***************************************************************************)
(* The registry scenario: refs are stored under the key "k", in the        *)
(* singular form and as items of a collection, as ref callbacks do (with   *)
(* the element at mount, with null at unmount), and read back; nothing is  *)
(* ever stored under "m".                                                  *)
(***************************************************************************)
RegKey == Str("k")

UnknownKey == Str("m")

\* item ids: a string, the integer 0 and the empty string
RegItems == {Str("i"), Num("0"), Str("")}

\* refs stored in the singular form
SingularRefs == {Element("t"), Element("t2"), Null}

\* refs stored as items of a collection
ItemRefs == {Element("u"), Element("v"), Null}

\* set(collectionId, ref).  Objects are held by value here, so an element
\* that was given item properties stays where it is, for it would carry them
\* along were it stored again.
RegSetSingular ==
  \E ref \in SingularRefs :
    /\ Prop(_refs, KeyOf(RegKey)).kind = "element" => Prop(_refs, KeyOf(RegKey)).items = <<>>
    /\ Set(RegKey, ref, NotProvided)

\* set(collectionId, itemId, ref)
RegSetItem == \E itemId \in RegItems, ref \in ItemRefs : Set(RegKey, itemId, ref)

\* get(collectionId)
RegGetSingular == \E collectionId \in {RegKey, UnknownKey} : Get(collectionId, NotProvided)

\* get(collectionId, itemId)
RegGetItem ==
  \E collectionId \in {RegKey, UnknownKey}, itemId \in RegItems : Get(collectionId, itemId)

NextReg ==
  \/ RegSetSingular
  \/ RegSetItem
  \/ RegGetSingular
  \/ RegGetItem
  \/ Resume

SpecReg == Init /\ [][NextReg]_vars

\* the held call is the singular set(k, t)
SetSingularCalled == op = "set" /\ args.ref = NotProvided

\* the held call is the collection-form set(c, i, t)
SetItemCalled == op = "set" /\ args.ref # NotProvided

\* what was stored under the key of the held call when the call began
StoredBefore == Prop(pre.refs, KeyOf(args.collectionId))

\* C16: get(k) right after the singular set(k, t) returns t, whatever was
\* stored under k before: nothing, another ref (overwrite) or a collection.
C16_SingularRoundTrip ==
  SetSingularCalled => get(This, args.collectionId, NotProvided) = args.itemIdOrRef

\* set(k, t2) over an earlier set(k, t): get(k) is t2
C16_Witness ==
  /\ SetSingularCalled
  /\ StoredBefore = Element("t")
  /\ args.itemIdOrRef = Element("t2")
  /\ get(This, RegKey, NotProvided) = Element("t2")

\* C17: get(c, i) right after set(c, i, t) returns t, whatever the registry
\* held before: no collection under c, a collection with or without an item
\* i, or a ref stored under c in the singular form.
C17_CollectionRoundTrip ==
  SetItemCalled => get(This, args.collectionId, args.itemIdOrRef) = args.ref

\* item 0 of a collection that holds other items is replaced: get(k, 0)
\* returns the new ref, not the old one
C17_Witness ==
  /\ SetItemCalled
  /\ StoredBefore.kind = "object"
  /\ Prop(StoredBefore, "0") = Element("u")
  /\ HasProp(StoredBefore, "i")
  /\ args.itemIdOrRef = Num("0")
  /\ args.ref = Element("v")
  /\ get(This, RegKey, Num("0")) = Element("v")
  /\ get(This, RegKey, Str("i")) = Prop(StoredBefore, "i")

\* C18: a singular id and a collection id share one namespace and the last
\* write wins without merge.  After set(k, t), set(k, i, u) leaves under k a
\* fresh collection that holds only i -> u (t is not what get(k) returns,
\* and t has not changed); after items were stored under k, set(k, t) makes
\* get(k) return t, and get(k, i) reaches no item stored before.
C18_LastWriteWins ==
  /\ (SetItemCalled /\ StoredBefore.kind \in {"element", "component", "null"})
       => get(This, args.collectionId, NotProvided)
            = PutProp(EmptyObject, KeyOf(args.itemIdOrRef), args.ref)
  /\ (SetSingularCalled /\ StoredBefore.kind = "object")
       => /\ get(This, args.collectionId, NotProvided) = args.itemIdOrRef
          /\ \A itemId \in RegItems :
               get(This, args.collectionId, itemId) \in {Undefined, Null}

\* the held call is the collection form get(c, i)
GetItemCalled == op = "get" /\ args.itemIdOrRef # NotProvided

\* nothing was ever stored under c
CollectionAbsent(refs, collectionId) == ~HasProp(refs, KeyOf(collectionId))

\* what is stored under c has no item i
ItemAbsent(refs, collectionId, itemId) ==
  ~HasProp(Prop(refs, KeyOf(collectionId)), KeyOf(itemId))

\* C19: get returns undefined for unknown keys, in every registry state:
\* get(k) when nothing was stored under k, get(c, i) when nothing was stored
\* under c or what is stored under c has no item i.
C19_GetUnknownIsUndefined ==
  /\ (op = "get" /\ args.itemIdOrRef = NotProvided
        /\ ~HasProp(_refs, KeyOf(args.collectionId)))
       => ret = Undefined
  /\ (GetItemCalled
        /\ \/ CollectionAbsent(_refs, args.collectionId)
           \/ ItemAbsent(_refs, args.collectionId, args.itemIdOrRef))
       => ret = Undefined

(***************************************************************************)
(* The focusById scenario: the items of the collection "items" are stored  *)
(* under a string, the integer 0 and the empty string, and focused by id,  *)
(* with and without an options hash.                                       *)
(***************************************************************************)
ItemsId == Str("items")

ByIdItems == {Str("a"), Num("0"), Str("")}

\* the element rendered for item id
ByIdTarget(id) == Element("item:" \o id.kind \o ":" \o id.name)

\* options hashes: a context alone, a collectionId of the caller's, and an id
\* and a collectionId of the caller's
ByIdOptions ==
  {PutProp(EmptyObject, "context", Str("ctx")),
   PutProp(PutProp(EmptyObject, "collectionId", Str("other")), "context", Str("ctx")),
   PutProp(PutProp(EmptyObject, "id", Str("z")), "collectionId", Str("other"))}

ByIdRegister == \E id \in ByIdItems : Set(ItemsId, id, ByIdTarget(id))

\* focusById(collectionId, itemId)
ByIdFocus == \E id \in ByIdItems : FocusById(ItemsId, id, NotProvided)

\* focusById(collectionId, itemId, options)
ByIdFocusWithOptions ==
  \E id \in ByIdItems, options \in ByIdOptions : FocusById(ItemsId, id, options)

NextById ==
  \/ ByIdRegister
  \/ ByIdFocus
  \/ ByIdFocusWithOptions
  \/ Resume

SpecById == Init /\ [][NextById]_vars

\* C13: focusById(collectionId, itemId) focuses the ref get(collectionId,
\* itemId) and returns a record with id = itemId and collectionId =
\* collectionId, for every item id: a string, an integer, the integer 0 and
\* the empty string too.
C13_FocusByIdEveryItemId ==
  (op = "focusById" /\ args.options = NotProvided) =>
    LET target == get(pre, args.collectionId, args.itemIdOrRef)
    IN  /\ ret.id = args.itemIdOrRef
        /\ ret.collectionId = args.collectionId
        /\ IF Truthy(target)
             THEN ret.ref = target /\ ret.applied = JsTrue /\ activeElement = target
             ELSE ret.ref = Null /\ ret.applied = JsFalse

\* C14: in focusById(collectionId, itemId, options) the record carries the
\* collectionId of the options when they have one, the collectionId argument
\* otherwise, and its id is itemId whatever id the options have.
C14_OptionPrecedence ==
  (op = "focusById" /\ args.options # NotProvided) =>
    /\ ret.id = args.itemIdOrRef
    /\ ret.collectionId = IF HasProp(args.options, "collectionId")
                            THEN Prop(args.options, "collectionId")
                            ELSE args.collectionId

(***************************************************************************)
(* The listener scenario: three listeners are registered and removed in    *)
(* any order.                                                              *)
(***************************************************************************)
Handlers == {Fn("A"), Fn("B"), Fn("C")}

LsAdd ==
  \E listener \in Handlers :
    /\ Len(_focusListeners) < MaxListeners
    /\ AddFocusChangeListener(listener)

LsRemove == \E listener \in Handlers : RemoveFocusChangeListener(listener)

NextListeners ==
  \/ LsAdd
  \/ LsRemove
  \/ Resume

SpecListeners == Init /\ [][NextListeners]_vars

\* the registrations of the list that are not of the listener l, in order
Others(listeners, l) == SelectSeq(listeners, LAMBDA x : x # l)

\* C20: removeFocusChangeListener(L) removes exactly L: one registration of
\* L is gone, and every other listener registered before the call is still
\* registered after it, in the same relative order, whatever the length of
\* the list and the position of L in it.
C20_RemoveExactlyTheListener ==
  (op = "removeFocusChangeListener"
     /\ \E i \in 1..Len(pre.listeners) : pre.listeners[i] = args.listener)
    => /\ Others(_focusListeners, args.listener) = Others(pre.listeners, args.listener)
       /\ Len(_focusListeners) = Len(pre.listeners) - 1

(***************************************************************************)
(* The application scenario: every public method is called.  A toolbar ref *)
(* (an element or a custom component) and one item of the collection       *)
(* "items" are registered, a listener is added and removed, the focus is   *)
(* moved, read and replaced, and refs are scrolled to.                     *)
(***************************************************************************)
ApiItem == Str("a")

ApiIds == {ToolbarId, ItemsId, Str("missing")}

ApiRegister == \E ref \in Refs : Set(ToolbarId, ref, NotProvided)

ApiRegisterItem == Set(ItemsId, ApiItem, Element("a"))

ApiGet == \E collectionId \in ApiIds, itemId \in {NotProvided, ApiItem} : Get(collectionId, itemId)

ApiUnmount == \E ref \in Refs : ref.kind = "component" /\ Detach(ref.name)

ApiAddListener ==
  /\ Len(_focusListeners) < MaxListeners
  /\ AddFocusChangeListener(Fn("L1"))

\* L2 is never registered
ApiRemoveListener == \E listener \in Listeners : RemoveFocusChangeListener(listener)

ApiFocus ==
  \E ref \in {Element("e"), Undefined} :
    Focus(ref, IdOptions(Str("e"), Undefined, Str("ctx")))

ApiFocusById ==
  \E collectionId \in ApiIds, itemId \in {NotProvided, ApiItem} :
    FocusById(collectionId, itemId, NotProvided)

ApiFocusNextById ==
  FocusNextById(ItemsId, NextOptions(FocusDirection.RIGHT, NoIndexes, Undefined, Undefined,
                                     1, FALSE, FALSE))

ApiFocusNext ==
  FocusNext(get(This, ItemsId, NotProvided),
            NextOptions(FocusDirection.LEFT, NoIndexes, ItemsId, Undefined, 1, FALSE, TRUE))

ApiSetCurrentFocus == \E focused \in {EmptyFocus, ElsewhereFocus} : SetCurrentFocus(focused)

ApiGetCurrentFocus == GetCurrentFocus

ApiIsFocusedRefInDOM == IsFocusedRefInDOM

ApiScrollToById ==
  \E collectionId \in ApiIds, itemId \in {NotProvided, ApiItem} :
    ScrollToById(collectionId, itemId, NotProvided)

ApiScrollToFocused == ScrollToFocused(NotProvided)

NextApi ==
  \/ ApiRegister
  \/ ApiRegisterItem
  \/ ApiGet
  \/ ApiUnmount
  \/ ApiAddListener
  \/ ApiRemoveListener
  \/ ApiFocus
  \/ ApiFocusById
  \/ ApiFocusNextById
  \/ ApiFocusNext
  \/ ApiSetCurrentFocus
  \/ ApiGetCurrentFocus
  \/ ApiIsFocusedRefInDOM
  \/ ApiScrollToById
  \/ ApiScrollToFocused
  \/ Resume

SpecApi == Init /\ [][NextApi]_vars

\* the calls that move or replace the focus
FocusOps == {"setCurrentFocus", "focus", "focusById", "focusNext", "focusNextById"}

\* the calls that do not
OtherOps ==
  {"set", "get", "getCurrentFocus", "isFocusedRefInDOM", "scrollToById", "scrollToFocused",
   "addFocusChangeListener", "removeFocusChangeListener"}

\* C22: listeners are invoked only by setCurrentFocus, called directly or by
\* a focus operation: set, get, getCurrentFocus, isFocusedRefInDOM,
\* scrollToById, scrollToFocused, addFocusChangeListener and
\* removeFocusChangeListener invoke none, and the invocations a call makes
\* are those of one setCurrentFocus, from the focus object that was current
\* to the one that is.
C22_ListenersFireOnlyThroughSetCurrentFocus ==
  /\ op \in OtherOps => fired = <<>>
  /\ fired # <<>> => (op \in FocusOps /\ Dispatch(pre.listeners, pre.focused, _focused))

\* focusNextById with two listeners registered: both are told, of the
\* change that the call made
C22_Witness ==
  /\ op = "focusNextById"
  /\ Len(pre.listeners) = 2
  /\ Len(fired) = 2
  /\ fired[2].focused = ret
  /\ _focused = ret
  /\ pre.focused # ret

\* the ref a held scrollToById call is about
ScrollTarget == get(pre, args.collectionId, args.itemIdOrRef)

\* the element of a ref that the adapter can resolve
ElementOf(ref) == IF ref.kind = "component" THEN DOMNode(ref.name) ELSE ref

\* C23: scrollToById on a registered id whose ref resolves scrolls the
\* element of the ref into view and returns {ref: the registered ref,
\* DOMRef: the element scrolled to, applied: true}.
C23_ScrollToByIdScrolls ==
  (op = "scrollToById" /\ Truthy(ScrollTarget) /\ Resolves(ScrollTarget, pre.detached)) =>
    /\ ret.ref = ScrollTarget
    /\ ret.DOMRef = ElementOf(ScrollTarget)
    /\ ret.applied = JsTrue
    /\ scrolledIntoView = ElementOf(ScrollTarget)

ScrollOps == {"scrollToById", "scrollToFocused"}

\* C24: scrollToById and scrollToFocused, successful or not, leave the
\* current focus object as it was and invoke no listener.
C24_ScrollLeavesFocusAlone ==
  op \in ScrollOps =>
    /\ _focused = pre.focused
    /\ fired = <<>>
    /\ _focusListeners = pre.listeners
    /\ activeElement = pre.activeElement

\* a successful scrollToFocused with a listener registered: another element
\* is scrolled into view, the focus object is the same, nobody is told
C24_Witness ==
  /\ op = "scrollToFocused"
  /\ ret.applied = JsTrue
  /\ Len(pre.listeners) >= 1
  /\ scrolledIntoView # pre.scrolledIntoView
  /\ _focused = pre.focused
  /\ fired = <<>>

\* C25: scrollToFocused scrolls the element of the current focus object and
\* returns a ScrollObject with the id, collectionId and ref of the current
\* focus object, DOMRef the element scrolled to, and applied = true exactly
\* when there was an element to scroll to.
C25_ScrollToFocused ==
  op = "scrollToFocused" =>
    LET element == pre.focused.DOMRef
        resolved == element.kind \in {"element", "node"}
    IN  /\ ret.id = pre.focused.id
        /\ ret.collectionId = pre.focused.collectionId
        /\ ret.ref = pre.focused.ref
        /\ ret.DOMRef = IF resolved THEN element ELSE Null
        /\ ret.applied = Bool(resolved)
        /\ scrolledIntoView = IF resolved THEN element ELSE pre.scrolledIntoView

\* the focus is on the custom component of the toolbar: its DOM node is
\* scrolled into view
C25_Witness ==
  /\ op = "scrollToFocused"
  /\ pre.focused.ref = Component("k")
  /\ pre.focused.collectionId = ToolbarId
  /\ ret.ref = Component("k")
  /\ ret.collectionId = ToolbarId
  /\ ret.DOMRef = DOMNode("k")
  /\ ret.applied = JsTrue
  /\ scrolledIntoView = DOMNode("k")

\* the value is a ScrollObject: it has the five properties of one
IsScrollObject(val) == DOMAIN val = {"id", "collectionId", "ref", "DOMRef", "applied"}

\* the held scroll call had nothing it could scroll to: scrollToById on an
\* id that is not registered or whose ref does not resolve, scrollToFocused
\* when the current focus object has no element
ScrollFails ==
  \/ op = "scrollToById" /\ (~Truthy(ScrollTarget) \/ ~Resolves(ScrollTarget, pre.detached))
  \/ op = "scrollToFocused" /\ ~Truthy(pre.focused.DOMRef)

\* C26: a scroll that fails returns a record with applied = false and DOMRef
\* = null and does not throw: scrollToById on an unregistered id or
\* collection, scrollToFocused before anything was focused, and a scroll
\* whose element cannot be resolved.
C26_ScrollFailureIsAValue ==
  /\ op \in ScrollOps => IsScrollObject(ret)
  /\ ScrollFails => (ret.applied = JsFalse /\ ret.DOMRef = Null
                       /\ scrolledIntoView = pre.scrolledIntoView)

\* scrollToById of an item of a collection that is not registered
C26_Witness ==
  /\ op = "scrollToById"
  /\ args.collectionId = Str("missing")
  /\ args.itemIdOrRef = ApiItem
  /\ ret = ScrollObject(ApiItem, Str("missing"), Null, Null, JsFalse)
  /\ This = pre

\* C28: getCurrentFocus returns the current focus object (the empty one
\* before any focus operation), invokes no listener and changes nothing, so
\* that calls that follow one another with no other call in between return
\* the same record.
C28_GetCurrentFocusIsARead ==
  op = "getCurrentFocus" =>
    /\ ret = pre.focused
    /\ fired = <<>>
    /\ This = pre

\* read after a focus was applied, with a listener registered
C28_Witness ==
  /\ op = "getCurrentFocus"
  /\ pre.focused.applied = JsTrue
  /\ Len(pre.listeners) >= 1
  /\ ret = _focused
  /\ ret.applied = JsTrue
  /\ fired = <<>>

\* C29: only set changes the registry: every other call leaves it as it
\* was, so that every get(k) and get(c, i) returns after the call what it
\* returned before; a ref that no longer resolves stays registered too.
C29_OnlySetChangesTheRegistry ==
  (op # "idle" /\ op # "set") => _refs = pre.refs

\* focusById on the toolbar, whose component has left the document: the
\* attempt fails and the ref is still registered
C29_Witness ==
  /\ op = "focusById"
  /\ ret.ref = Component("k")
  /\ ret.applied = JsFalse
  /\ get(This, ToolbarId, NotProvided) = Component("k")
  /\ HasProp(_refs, KeyOf(ItemsId))
  /\ _refs = pre.refs

\* C21: removeFocusChangeListener with a listener that is not registered
\* does nothing: it returns without an error, and the listener list, the
\* registry and the current focus object are as before.
C21_RemoveUnregisteredIsNoOp ==
  (op = "removeFocusChangeListener"
     /\ \A i \in 1..Len(pre.listeners) : pre.listeners[i] # args.listener)
    => /\ This = pre
       /\ fired = <<>>
       /\ ret = Undefined

\* L2, never registered, is removed while L1 is registered twice, refs are
\* registered and a focus is current
C21_Witness ==
  /\ op = "removeFocusChangeListener"
  /\ args.listener = Fn("L2")
  /\ pre.listeners = <<Fn("L1"), Fn("L1")>>
  /\ pre.focused.applied = JsTrue
  /\ HasProp(pre.refs, KeyOf(ToolbarId))
  /\ _focusListeners = <<Fn("L1"), Fn("L1")>>
  /\ _focused = pre.focused
  /\ _refs = pre.refs

\* C27: without indexes the candidate sequence of focusNext is the item ids
\* of the collection in the order in which set(collectionId, itemId, ref)
\* registered them, string and integer ids alike: an id registered for the
\* first time comes after all the ids registered before it.  (Ids are
\* compared as keys, 0 and '0' being the same key.)
C27_CandidatesInRegistrationOrder ==
  (/\ SetItemCalled
   /\ StoredBefore.kind \in {"undefined", "object"}
   /\ ~HasProp(StoredBefore, KeyOf(args.itemIdOrRef)))
    => LET before == candidates(StoredBefore, NextOptions("RIGHT", NoIndexes, Undefined,
                                                          Undefined, 1, FALSE, FALSE))
           after == candidates(get(This, args.collectionId, NotProvided),
                               NextOptions("RIGHT", NoIndexes, Undefined, Undefined,
                                           1, FALSE, FALSE))
       IN  [i \in 1..Len(after) |-> KeyOf(after[i])]
             = [i \in 1..Len(before) |-> KeyOf(before[i])] \o <<KeyOf(args.itemIdOrRef)>>

(***************************************************************************)
(* The dispatch scenario: among the listeners are some that unregister a   *)
(* listener when they are told of a change: X removes itself, Y removes A. *)
(***************************************************************************)
Subscribers == {Fn("A"), Fn("B"), Unsubscriber("X", "X"), Unsubscriber("Y", "A")}

DpAdd ==
  \E listener \in Subscribers :
    /\ Len(_focusListeners) < MaxListeners
    /\ AddFocusChangeListener(listener)

DpSetCurrentFocus == \E focused \in {EmptyFocus, ElsewhereFocus} : SetCurrentFocus(focused)

NextDispatch ==
  \/ DpAdd
  \/ DpSetCurrentFocus
  \/ Resume

SpecDispatch == Init /\ [][NextDispatch]_vars

\* the names of the listeners that the listeners invoked in the held call
\* asked to remove
Unregistered ==
  {Prop(fired[i].listener, "removes").name :
     i \in {j \in 1..Len(fired) : HasProp(fired[j].listener, "removes")}}

\* C30: when a listener unregisters a listener, itself or another, while
\* setCurrentFocus dispatches, no other listener is skipped: every listener
\* that was registered when setCurrentFocus began (each registered once) and
\* is not one that was removed is invoked exactly once for the change.
C30_UnregisteringSkipsNobody ==
  (op = "setCurrentFocus" /\ Distinct(pre.listeners)) =>
    \A i \in 1..Len(pre.listeners) :
      pre.listeners[i].name \notin Unregistered => Invocations(pre.listeners[i]) = 1

(***************************************************************************)
(* The re-entry scenario: among the listeners are R, which sets the focus  *)
(* to its own element when it is told of a focus elsewhere, and T, which   *)
(* throws.  The focus is changed by setCurrentFocus and by focus.          *)
(***************************************************************************)
Reactors == {Fn("A"), Fn("B"), Refocuser("R", Element("r")), Thrower("T")}

ReAdd ==
  \E listener \in Reactors :
    /\ Len(_focusListeners) < MaxListeners
    /\ AddFocusChangeListener(listener)

ReSetCurrentFocus == \E focused \in {EmptyFocus, ElsewhereFocus} : SetCurrentFocus(focused)

ReFocus == Focus(Element("e"), EmptyObject)

NextReentry ==
  \/ ReAdd
  \/ ReSetCurrentFocus
  \/ ReFocus
  \/ Resume

SpecReentry == Init /\ [][NextReentry]_vars

\* the held call is an outermost change of the focus
ChangeCalled == op \in {"setCurrentFocus", "focus"}

\* the focus object the held call dispatched: the one passed to
\* setCurrentFocus, or the one focus made of the element it focused
Outer ==
  IF op = "setCurrentFocus"
    THEN args.focused
    ELSE FocusObject(args.ref, args.ref, Undefined, Undefined, Undefined, JsTrue)

\* the indexes at which the list registered before the call has a listener
\* that throws, or one that changes the focus when told of the change
Throwers == {i \in 1..Len(pre.listeners) : HasProp(pre.listeners[i], "throws")}

Reentrants == {i \in 1..Len(pre.listeners) : Refocuses(pre.listeners[i], Outer)}

\* the invocations of the listeners at the indexes from..to of the list, in
\* order, each with the pair given
Told(listeners, from, to, previousFocus, focused) ==
  [j \in 1..(to - from + 1) |-> Invocation(listeners[from + j - 1], previousFocus, focused)]

\* the focus object of the last invocation the held call made of the listener
LastTold(l) ==
  fired[CHOOSE i \in 1..Len(fired) :
          /\ fired[i].listener = l
          /\ \A j \in (i + 1)..Len(fired) : fired[j].listener # l].focused

\* C31: once an outermost setCurrentFocus or focus has returned, the focus
\* object each registered listener was last told of is getCurrentFocus(), and
\* setCurrentFocus has returned the object that was passed to it (focus: an
\* object of the ref that was passed to it), also when a listener changed
\* the focus during the dispatch.
C31_NotifiedOfCurrentFocus ==
  (ChangeCalled /\ Throwers = {}) =>
    /\ \A i \in 1..Len(_focusListeners) :
         Invocations(_focusListeners[i]) > 0
           => LastTold(_focusListeners[i]) = getCurrentFocus(This)
    /\ op = "setCurrentFocus" => ret = args.focused
    /\ op = "focus" => ret.ref = args.ref

C33_ThrowingListenerNotIsolated ==
  (ChangeCalled /\ Throwers # {}) =>
    LET i == CHOOSE j \in Throwers : \A k \in Throwers : j <= k
    IN  /\ ret = Thrown
        /\ fired[Len(fired)].listener = pre.listeners[i]
        /\ Invocations(pre.listeners[i]) = 1
        /\ _focused = fired[Len(fired)].focused
        /\ (\A j \in Reentrants : j > i)
             => /\ fired = Told(pre.listeners, 1, i, pre.focused, Outer)
                /\ _focused = Outer

\* T, between A and B, throws when it is told of a focus elsewhere: B is
\* not told, and the focus elsewhere is current
C33_Witness ==
  /\ op = "setCurrentFocus"
  /\ pre.listeners = <<Fn("A"), Thrower("T"), Fn("B")>>
  /\ pre.focused = EmptyFocus
  /\ args.focused = ElsewhereFocus
  /\ ret = Thrown
  /\ Len(fired) = 2
  /\ _focused = ElsewhereFocus

(***************************************************************************)
(* The walk scenario: the items of a list are registered under their array *)
(* index (0, 1, 2) or under a string, in any order; one is focused by its  *)
(* id, and focusNextById walks LEFT and RIGHT through the list, one item   *)
(* to a row.                                                               *)
(***************************************************************************)
WalkItems == {Num("0"), Num("1"), Num("2"), Str("x"), Str("y")}

WalkOptions(direction, xWrap) ==
  NextOptions(direction, NoIndexes, Undefined, Undefined, 1, FALSE, xWrap)

WalkRegister ==
  \E id \in WalkItems :
    /\ ~HasProp(get(This, ItemsId, NotProvided), KeyOf(id))
    /\ Set(ItemsId, id, ByIdTarget(id))

WalkFocusById == \E id \in WalkItems : FocusById(ItemsId, id, NotProvided)

WalkFocusNextById ==
  \E direction \in {FocusDirection.LEFT, FocusDirection.RIGHT}, xWrap \in BOOLEAN :
    FocusNextById(ItemsId, WalkOptions(direction, xWrap))

WalkSetCurrentFocus == SetCurrentFocus(EmptyFocus)

NextWalk ==
  \/ WalkRegister
  \/ WalkFocusById
  \/ WalkFocusNextById
  \/ WalkSetCurrentFocus
  \/ Resume

SpecWalk == Init /\ [][NextWalk]_vars

\* the 0-based position in the candidate sequence of the item the focus was
\* on when the call began, the identifier taken as the key it is registered
\* under; -1 when the focus was on no candidate
WalkPos ==
  IF \E i \in 1..NavLen : KeyOf(NavSeq[i]) = KeyOf(NavBefore.id)
    THEN (CHOOSE i \in 1..NavLen : KeyOf(NavSeq[i]) = KeyOf(NavBefore.id)) - 1
    ELSE -1

\* C34: when the focus is on an item i of the collection that focusById(c, i)
\* focused, i being an integer or a string as it was passed to set, and i is
\* not the last candidate, focusNextById(c, {direction: RIGHT}) focuses the
\* item that follows i in the candidate sequence.
C34_NavigationContinuesFromFocusById ==
  (/\ NavCalled
   /\ op = "focusNextById"
   /\ NavDirection = FocusDirection.RIGHT
   /\ NavBefore.collectionId = ItemsId
   /\ NavBefore.applied = JsTrue
   /\ NavBefore.id \in WalkItems
   /\ WalkPos # -1
   /\ WalkPos + 1 < NavLen)
    => /\ KeyOf(ret.id) = KeyOf(NavSeq[WalkPos + 2])
       /\ ret.ref = Prop(args.ref, KeyOf(NavSeq[WalkPos + 2]))
       /\ _focused = ret

\* the outcome of the k-th of k successive focusNextById(ItemsId, options),
\* the first of them called on this
RECURSIVE Walk(_, _, _)
Walk(this, options, k) ==
  IF k <= 1
    THEN focusNextById(this, ItemsId, options)
    ELSE focusNextById(Walk(this, options, k - 1).this, ItemsId, options)

\* C37: from an empty focus, on a collection of n >= 1 items that can all be
\* focused, with one item to a row and xWrap, n successive
\* focusNextById(c, {direction: RIGHT}) focus the items in the order of the
\* candidate sequence, each once, and the call after them focuses the first
\* item again.  (The held call is the first of them.)
C37_FullTraversalWithWrap ==
  (/\ NavCalled
   /\ op = "focusNextById"
   /\ NavDirection = FocusDirection.RIGHT
   /\ args.options.xWrap
   /\ pre.focused = EmptyFocus
   /\ NavLen >= 1)
    => /\ Walk(pre, args.options, 1).this = This
       /\ \A k \in 1..(NavLen + 1) :
            LET out == Walk(pre, args.options, k)
                id == NavSeq[((k - 1) % NavLen) + 1]
            IN  /\ out.ret.id = id
                /\ out.ret.ref = Prop(args.ref, KeyOf(id))
                /\ out.ret.DOMRef = out.ret.ref
                /\ out.ret.applied = JsTrue
                /\ out.this.focused = out.ret

\* the first call of a walk through the items 0, 2 and x: it focuses item 0
C37_Witness ==
  /\ op = "focusNextById"
  /\ NavDirection = FocusDirection.RIGHT
  /\ args.options.xWrap
  /\ pre.focused = EmptyFocus
  /\ NavSeq = <<Str("0"), Str("2"), Str("x")>>
  /\ ret.ref = ByIdTarget(Num("0"))
  /\ _focused = ret
  /\ Walk(pre, args.options, 3).ret.ref = ByIdTarget(Str("x"))
  /\ Walk(pre, args.options, 4).ret.ref = ByIdTarget(Num("0"))

(***************************************************************************)
(* Claims on the navigation scenario that look at what focusNext selects   *)
(* for every width, and at the same call made again.                       *)
(***************************************************************************)
\* C35: whenever the focus is in the collection on a candidate of a
\* non-empty candidate sequence, the identifier focusNext selects is an
\* element of the sequence, for every direction, every collectionWidth >= 1
\* (also one larger than the sequence is long) and both values of the wrap
\* flags.
C35_SelectedIsACandidate ==
  (NavInCollection /\ NavLen >= 1 /\ NavWidth >= 1)
    => \E i \in 0..(NavLen - 1) : NavSelected(i)

\* the move of the held call leaves the positions 0..n-1 of the sequence
NavOverflows ==
  \/ NavDirection = "LEFT" /\ NavPos - 1 < 0
  \/ NavDirection = "RIGHT" /\ NavPos + 1 > NavLen - 1
  \/ NavDirection = "UP" /\ NavPos - NavWidth < 0
  \/ NavDirection = "DOWN" /\ NavPos + NavWidth > NavLen - 1

\* the instance after the held focusNext has been made k more times, with
\* the same collection and options
RECURSIVE Repeated(_)
Repeated(k) ==
  IF k = 0 THEN This ELSE focusNext(Repeated(k - 1), args.ref, args.options).this

\* C38: with both wrap flags false and collectionWidth no larger than the
\* sequence is long, once a focusNext in a direction has been clamped,
\* focusNext in that direction again, once or several times, leaves the
\* focused identifier what the clamped call left it.
C38_ClampedMoveIsFixedPoint ==
  (/\ NavInCollection
   /\ ~args.options.xWrap
   /\ ~args.options.yWrap
   /\ NavWidth <= NavLen
   /\ NavOverflows)
    => \A k \in 1..3 : getCurrentFocus(Repeated(k)).id = getCurrentFocus(This).id

\* DOWN from the last of five items in rows of two is clamped to the fourth
\* item, where DOWN is clamped again
C38_Witness ==
  /\ NavInCollection
  /\ NavDirection = "DOWN"
  /\ ~args.options.yWrap
  /\ NavWidth = 2
  /\ NavLen = 5
  /\ NavPos = 4
  /\ _focused.id = NavSeq[4]
  /\ getCurrentFocus(Repeated(2)).id = NavSeq[4]

(***************************************************************************)
(* The record scenario: the calls of the application scenario that return  *)
(* a focus object or a scroll object, with a focus recorded from outside   *)
(* by a caller that knows the element in the DOM and has no ref to it.     *)
(***************************************************************************)
DOMOnlyFocus == FocusObject(Null, Element("x"), Undefined, Undefined, Undefined, JsTrue)

RecSetCurrentFocus ==
  \E focused \in {EmptyFocus, ElsewhereFocus, DOMOnlyFocus} : SetCurrentFocus(focused)

NextRecords ==
  \/ ApiRegister
  \/ ApiRegisterItem
  \/ ApiUnmount
  \/ ApiFocus
  \/ ApiFocusById
  \/ ApiFocusNextById
  \/ ApiFocusNext
  \/ RecSetCurrentFocus
  \/ ApiScrollToById
  \/ ApiScrollToFocused
  \/ Resume

SpecRecords == Init /\ [][NextRecords]_vars

\* the calls that return a record of an attempt
RecordOps ==
  {"focus", "focusById", "focusNext", "focusNextById", "scrollToById", "scrollToFocused"}

NonNull(val) == val.kind \notin {"null", "undefined"}

\* a record with a DOMRef has a ref
HasRefOfDOMRef(record) == NonNull(record.DOMRef) => NonNull(record.ref)

\* C36 as stated: every record returned by focus, focusById, focusNext,
\* focusNextById, scrollToById and scrollToFocused, whatever was passed to
\* setCurrentFocus before, has applied = (DOMRef is non-null), and has a
\* non-null ref when its DOMRef is non-null.
C36_ResultRecordInvariant ==
  op \in RecordOps =>
    /\ ret.applied = Bool(NonNull(ret.DOMRef))
    /\ HasRefOfDOMRef(ret)

\* C36, amended: every such record has applied = (DOMRef is non-null); the
\* records of focus, focusById, focusNext, focusNextById and scrollToById
\* have a non-null ref when their DOMRef is non-null, and so has the record
\* of scrollToFocused when the current focus object has.
C36_ResultRecordInvariantOfStoredRef ==
  op \in RecordOps =>
    /\ ret.applied = Bool(NonNull(ret.DOMRef))
    /\ (op = "scrollToFocused" => HasRefOfDOMRef(getCurrentFocus(pre)))
         => HasRefOfDOMRef(ret)

\* scrollToFocused after a focus elsewhere was recorded from outside, with
\* its ref: the record has the ref and the element, and applied is true
C36_Witness ==
  /\ op = "scrollToFocused"
  /\ pre.focused = ElsewhereFocus
  /\ HasProp(pre.refs, KeyOf(ToolbarId))
  /\ ret.ref = Element("x")
  /\ ret.DOMRef = Element("x")
  /\ ret.applied = JsTrue

(***************************************************************************)
(* A claim on the focus scenario, where a listener may be added again      *)
(* while it is registered.                                                 *)
(***************************************************************************)
\* C39: the listeners are a set: one setCurrentFocus invokes every listener
\* registered exactly once, also a listener that addFocusChangeListener was
\* given twice, and after one removeFocusChangeListener(L) the listener L
\* is not registered, however often it was added.
C39_ListenersAreASet ==
  /\ op = "setCurrentFocus"
       => \A i \in 1..Len(pre.listeners) : Invocations(pre.listeners[i]) = 1
  /\ op = "removeFocusChangeListener"
       => \A i \in 1..Len(_focusListeners) : _focusListeners[i] # args.listener

====
